---- MODULE Spec2Model ----
(***************************************************************************)
(* Model of the listing-strategy backtest (listing_strategy.py, db.py).    *)
(*                                                                         *)
(* Prices are integers in hundredths of the quote unit (1.35 is 135); the  *)
(* take-profit fraction is in hundredths as well (0.3 is 30).  A candle is *)
(* the tuple <<open_ms, open, high, low, close>>; Python's k[1] and k[2]   *)
(* are the tuple's 2nd and 3rd components.  Instants are counted in hours  *)
(* from an epoch, days in days from the same epoch.                        *)
(*                                                                         *)
(* Each part of the program has its own specification: SpecPnl (the pure   *)
(* evaluation), SpecStore (inserts into table coins), SpecReport (one      *)
(* report write, step by step), SpecPages (one fetch of the events of a    *)
(* window) and SpecMain (runs of main, one after the other).               *)
(***************************************************************************)
EXTENDS Integers, Sequences, FiniteSets, TLC

VARIABLES
    klines,     \* candle series handed to calculate_pnl
    tp,         \* configured take-profit fraction, in hundredths
    pnl,        \* value returned by calculate_pnl
    ppc         \* position of the evaluation: "start" | "done"

VARIABLES
    store,      \* rows of table coins, in rowid order
    store_prev, \* the table as it was before the latest insert call
    ins_ev,     \* argument of the latest _save_api_event call
    ins_ret,    \* what that call returned
    ins_twice   \* TRUE when that call repeated the event of the call before it

VARIABLES
    fs_report,  \* the file reports/strategy_results.csv
    fs_tmp,     \* the temporary file of the write in progress
    w_pc,       \* position in _write_strategy_results
    w_rows,     \* its argument rows
    w_old,      \* the old rows it retained
    w_before,   \* the report file as it was when the call began
    w_count     \* calls of _write_strategy_results begun so far

VARIABLES
    limit,      \* argument limit of _fetch_events_for_window
    cat_resp,   \* what the categories endpoint answers
    server,     \* what the events endpoint answers, page by page
    fpc,        \* position in _fetch_events_for_window
    categories, \* common_params["categories"], None when not set
    page,       \* the page about to be requested
    all_events, \* the records gathered so far
    requested,  \* the page numbers requested so far, in order
    raised      \* the exception that left the call and where it arose

pnlVars == <<klines, tp, pnl, ppc>>

storeVars == <<store, store_prev, ins_ev, ins_ret, ins_twice>>

reportVars == <<fs_report, fs_tmp, w_pc, w_rows, w_old, w_before, w_count>>

VARIABLES
    today,      \* the UTC day of the run, counted from an epoch
    runs,       \* runs of main started so far
    mpc,        \* position in main: "idle" | "eval" | "ingest" | "exited" | "crashed"
    y_events,   \* the rows of yesterday that the run evaluates
    api_events, \* the events that the run fetched for tomorrow
    idx,        \* position (from 1) in the loop over y_events or api_events
    csv_rows,   \* report rows gathered by the evaluation pass
    exc,        \* the exception that ended the run, "none" otherwise
    last,       \* what the latest turn of the evaluation loop did
    store0,     \* the table when the run began
    report0     \* the report file when the run began

fetchVars == <<limit, cat_resp, server, fpc, categories, page, all_events, requested, raised>>

mainVars == <<today, runs, mpc, y_events, api_events, idx, csv_rows, exc, last, store0, report0>>

vars == <<pnlVars, storeVars, reportVars, fetchVars, mainVars>>

\* what each part of the program leaves alone
notPnl == <<storeVars, reportVars, fetchVars, mainVars>>

notStore == <<pnlVars, reportVars, fetchVars, mainVars>>

notReport == <<pnlVars, storeVars, fetchVars, mainVars>>

notFetch == <<pnlVars, storeVars, reportVars, mainVars>>

-----------------------------------------------------------------------------
(* Bounds *)

MaxCandles == 3

MaxStore == 3

MaxBatch == 2

MaxWrites == 2

MaxPages == 3

MaxApi == 2

MaxRuns == 2

-----------------------------------------------------------------------------
(* Python values *)

None == [kind |-> "None", val |-> 0]

\* a float that str() prints as the decimal v.  under: the binary value lies
\* just below v; it is recorded where v is a threshold of _fmt_price, the only
\* place where the rounding error of an operation reaches the report's text
Float(v) == [kind |-> "float", val |-> v, under |-> FALSE]

Str(s) == [kind |-> "str", val |-> s]

\* a text the program searches, as its sequence of characters
Text(chars) == [kind |-> "text", val |-> chars]

\* an ISO-8601 text of the UTC instant h, counted in hours from an epoch
IsoStr(h) == [kind |-> "isostr", val |-> h]

\* a text that datetime.fromisoformat rejects
BadStr == [kind |-> "badstr", val |-> 0]

DateTime(h) == [kind |-> "datetime", val |-> h]

\* bool(x) of an optional text
Truthy(x) == x # None /\ x # Str("") /\ x # Text(<<>>)

\* a or b
Or(a, b) == IF Truthy(a) THEN a ELSE b

Max(a, b) == IF a >= b THEN a ELSE b

Min(a, b) == IF a <= b THEN a ELSE b

\* texts that the program searches are sequences of characters
UpperCase ==
    << "A", "B", "C", "D", "E", "F", "G", "H", "I", "J", "K", "L", "M",
       "N", "O", "P", "Q", "R", "S", "T", "U", "V", "W", "X", "Y", "Z" >>

LowerCase ==
    << "a", "b", "c", "d", "e", "f", "g", "h", "i", "j", "k", "l", "m",
       "n", "o", "p", "q", "r", "s", "t", "u", "v", "w", "x", "y", "z" >>

LowerChar(c) ==
    IF \E i \in 1..Len(UpperCase) : UpperCase[i] = c
    THEN LowerCase[CHOOSE i \in 1..Len(UpperCase) : UpperCase[i] = c]
    ELSE c

UpperChar(c) ==
    IF \E i \in 1..Len(LowerCase) : LowerCase[i] = c
    THEN UpperCase[CHOOSE i \in 1..Len(LowerCase) : LowerCase[i] = c]
    ELSE c

\* s.upper()
Upper(s) == [i \in 1..Len(s) |-> UpperChar(s[i])]

RECURSIVE LStrip(_)
LStrip(s) == IF s # <<>> /\ Head(s) = " " THEN LStrip(Tail(s)) ELSE s

RECURSIVE RStrip(_)
RStrip(s) == IF s # <<>> /\ s[Len(s)] = " " THEN RStrip(SubSeq(s, 1, Len(s) - 1)) ELSE s

\* s.strip()
Strip(s) == RStrip(LStrip(s))

\* s.lower()
Lower(s) == [i \in 1..Len(s) |-> LowerChar(s[i])]

\* sub in s
Contains(sub, s) ==
    \E i \in 0..(Len(s) - Len(sub)) : SubSeq(s, i + 1, i + Len(sub)) = sub

HoursPerDay == 24

-----------------------------------------------------------------------------
(* calculate_pnl *)

\* klines[start_idx:] of a non-empty list, start_idx counted from 0
Slice(s, start_idx) == SubSeq(s, start_idx + 1, Len(s))

RECURSIVE MaxHigh(_)
\* max(float(k[2]) for k in ks) over a non-empty sequence
MaxHigh(ks) ==
    IF Len(ks) = 1 THEN ks[1][3]
    ELSE Max(ks[1][3], MaxHigh(Tail(ks)))

start_idx_of(ks) == IF Len(ks) > 1 THEN 1 ELSE 0

\* Binary subtraction of two prices given in hundredths, from 0.00 to 3.00:
\* the opens e for which float(e + d) - float(e) comes out below float(d),
\* for the differences d of 0.01, 0.1 and 1 (1.40 - 1.30 is
\* 0.09999999999999987)
UnderByCent ==
    { 2, 5, 7, 8, 10, 11, 14, 17, 20, 23, 28, 34, 40, 46, 56, 68, 81, 93,
      112, 137, 162, 187, 200, 202, 204, 206, 208, 210, 212, 214, 216, 218,
      220, 222, 224, 225, 227, 229, 231, 233, 235, 237, 239, 241, 243, 245,
      247, 249, 250, 252, 254, 256, 258, 260, 262, 264, 266, 268, 270, 272,
      274, 275, 277, 279, 281, 283, 285, 287, 289, 291, 293, 295, 297, 299 }

UnderByTenth ==
    { 2, 5, 8, 11, 14, 19, 20, 25, 26, 27, 28, 31, 32, 33, 34, 37, 38, 39,
      40, 47, 48, 49, 50, 51, 52, 53, 54, 55, 56, 59, 60, 61, 62, 63, 64,
      65, 66, 67, 68, 72, 73, 74, 75, 76, 77, 78, 79, 80, 81, 84, 85, 86,
      87, 88, 89, 90, 91, 92, 93, 103, 104, 105, 106, 107, 108, 109, 110,
      111, 112, 128, 129, 130, 131, 132, 133, 134, 135, 136, 137, 153, 154,
      155, 156, 157, 158, 159, 160, 161, 162, 178, 179, 180, 181, 182, 183,
      184, 185, 186, 187, 191, 193, 195, 197, 199, 216, 218, 220, 222, 224,
      241, 243, 245, 247, 249, 266, 268, 270, 272, 274 }

UnderByUnit ==
    { 13, 14, 15, 16, 17, 38, 39, 40, 63, 64, 65, 66, 67, 68, 88, 89, 90,
      91, 92, 93, 101, 103, 105, 107, 109, 111, 126, 128, 130, 132, 134,
      136, 151, 153, 155, 157, 159, 161, 176, 178, 180, 182, 184, 186 }

\* high_val - entry on floats
FloatSub(high_val, entry) ==
    LET d == high_val - entry
    IN  [kind  |-> "float",
         val   |-> d,
         under |-> \/ d = 1 /\ entry \in UnderByCent
                   \/ d = 10 /\ entry \in UnderByTenth
                   \/ d = 100 /\ entry \in UnderByUnit]

\* mutant: the running high is taken over every candle, the first included
calculate_pnl_all_highs(ks) ==
    IF ks = <<>> THEN None
    ELSE FloatSub(MaxHigh(ks), ks[start_idx_of(ks) + 1][2])

calculate_pnl(ks) ==
    IF ks = <<>> THEN None
    ELSE LET start_idx == start_idx_of(ks)
             entry     == ks[start_idx + 1][2]
             high_val  == MaxHigh(Slice(ks, start_idx))
         IN  FloatSub(high_val, entry)

-----------------------------------------------------------------------------
(* Inputs of the pure evaluation *)

Prices == {100, 130, 140}

TpSet == {30, 5}

\* <<open, high, low, close>> with low <= open, close <= high
OHLC == {c \in Prices \X Prices \X Prices \X Prices :
            /\ c[3] <= c[1] /\ c[3] <= c[4]
            /\ c[1] <= c[2] /\ c[4] <= c[2]}

\* hourly candles, ascending by open time
Stamp(s) == [i \in 1..Len(s) |-> <<i - 1, s[i][1], s[i][2], s[i][3], s[i][4]>>]

\* the end-to-end scenario of the specification (section 8)
ExampleSeries ==
    << <<0, 100, 100, 100, 100>>,
       <<1, 100, 105,  95, 102>>,
       <<2, 100, 135, 100, 130>> >>

KlineInputs ==
    {Stamp(s) : s \in UNION {[1..n -> OHLC] : n \in 0..MaxCandles}}
        \cup {ExampleSeries}

-----------------------------------------------------------------------------
(* The parts of the state that a specification does not use stay as follows *)

IdleStore ==
    /\ store = <<>>
    /\ store_prev = <<>>
    /\ ins_ev = None
    /\ ins_ret = FALSE
    /\ ins_twice = FALSE

NoFile == [exists |-> FALSE, lines |-> <<>>]

File(lines) == [exists |-> TRUE, lines |-> lines]

\* no exception has left the call
NotRaised == [kind |-> "none", val |-> "none"]

IdleFetch ==
    /\ limit = 0
    /\ cat_resp = None
    /\ server = <<>>
    /\ fpc = "idle"
    /\ categories = None
    /\ page = 0
    /\ all_events = <<>>
    /\ requested = <<>>
    /\ raised = NotRaised

NoTurn == [fetch |-> "none", exc |-> "none", klines |-> <<>>, outcome |-> "none", row |-> <<>>]

IdleMain ==
    /\ today = 0
    /\ runs = 0
    /\ mpc = "off"
    /\ y_events = <<>>
    /\ api_events = <<>>
    /\ idx = 0
    /\ csv_rows = <<>>
    /\ exc = "none"
    /\ last = NoTurn
    /\ store0 = <<>>
    /\ report0 = NoFile

IdleReport ==
    /\ fs_report = NoFile
    /\ fs_tmp = NoFile
    /\ w_pc = "idle"
    /\ w_rows = <<>>
    /\ w_old = <<>>
    /\ w_before = NoFile
    /\ w_count = 0

-----------------------------------------------------------------------------
(* The pure evaluation: calculate_pnl applied to a series *)

InitPnl ==
    /\ klines \in KlineInputs
    /\ tp \in TpSet
    /\ pnl = None
    /\ ppc = "start"
    /\ IdleStore
    /\ IdleReport
    /\ IdleFetch
    /\ IdleMain

Evaluate ==
    /\ ppc = "start"
    /\ pnl' = calculate_pnl(klines)
    /\ ppc' = "done"
    /\ UNCHANGED <<klines, tp>>
    /\ UNCHANGED notPnl

NextPnl == Evaluate

SpecPnl == InitPnl /\ [][NextPnl]_vars

\* index (from 1) of the entry candle of a non-empty series
EntryPos(ks) == IF Len(ks) > 1 THEN 2 ELSE 1

\* C1: take-profit mode caps the payoff: once the evaluation of a non-empty
\* series is done, if some candle's high reaches entry*(1+tp) the result is
\* exactly tp.
C1_TakeProfitCapped ==
    (ppc = "done" /\ klines # <<>>) =>
        LET entry == klines[EntryPos(klines)][2]
        IN  (\E i \in 1..Len(klines) : klines[i][3] * 100 >= entry * (100 + tp))
                => pnl = Float(tp)

\* C9: running-high mode: for a non-empty series the result is the greatest
\* high from the entry candle onward minus the entry open (the first candle's
\* high is ignored when there are two candles or more); for the empty series
\* the result is None, never a number.
C9_RunningHigh ==
    ppc = "done" =>
        IF klines = <<>> THEN pnl = None
        ELSE LET e     == EntryPos(klines)
                 entry == klines[e][2]
             IN  /\ pnl.kind = "float"
                 /\ \E i \in e..Len(klines) : pnl.val = klines[i][3] - entry
                 /\ \A i \in e..Len(klines) : klines[i][3] - entry <= pnl.val

\* C9 witness: a series of two or more candles whose first candle has the
\* highest high of all has been evaluated.
C9_Witness ==
    /\ ppc = "done"
    /\ Len(klines) >= 2
    /\ \A i \in 2..Len(klines) : klines[1][3] > klines[i][3]
    /\ pnl.kind = "float"

-----------------------------------------------------------------------------
(* The event store: table coins of db.py and _save_api_event *)

_parse_event_date(date_str) ==
    IF ~Truthy(date_str) THEN None
    ELSE IF date_str.kind = "isostr" THEN DateTime(date_str.val)
    ELSE None

\* func.date(event_date): the calendar day of a stored instant, NULL for NULL
SqlDate(dt) == IF dt = None THEN None ELSE [kind |-> "date", val |-> dt.val \div HoursPerDay]

Day(d) == [kind |-> "date", val |-> d]

_query_events_for_day(st, day) ==
    SelectSeq(st, LAMBDA r : SqlDate(r.event_date) = Day(day))

\* the CoinEvent that _save_api_event builds from an event with coins
RowOf(event) ==
    LET coin == event.coins[1]
    IN  [coin_id       |-> IF Truthy(coin.id) THEN coin.id ELSE Str(""),
         coin_name     |-> coin.name,
         coin_symbol   |-> coin.symbol,
         coin_fullname |-> coin.fullname,
         event_name    |-> Or(Or(event.dash, event.title_en), None),
         event_date    |-> _parse_event_date(Or(event.date_event, event.created_date))]

\* uq_coin_event on SQLite: a NULL in a constrained column equals nothing
UniqueViolation(st, row) ==
    \E i \in 1..Len(st) :
        /\ st[i].coin_id = row.coin_id
        /\ row.event_name # None /\ st[i].event_name = row.event_name
        /\ row.event_date # None /\ st[i].event_date = row.event_date

\* the value _save_api_event returns
save_ret(st, event) ==
    IF event.coins = <<>> THEN FALSE
    ELSE ~UniqueViolation(st, RowOf(event))

\* the table after _save_api_event
save_store(st, event) ==
    IF save_ret(st, event) THEN Append(st, RowOf(event)) ELSE st

Coin(id, sym) ==
    [id |-> id, name |-> sym, symbol |-> sym, fullname |-> sym]

FOO == Text(<<"F", "O", "O">>)

BAR == Text(<<"B", "A", "R">>)

FooCoin == Coin(Str("foo"), FOO)

BarCoin == Coin(Str("bar"), BAR)

ListingTitle == Text(<<"B", "i", "n", "a", "n", "c", "e", " ", "l", "i", "s", "t", "s">>)

TitleEn == Text(<<"L", "i", "s", "t", "i", "n", "g">>)

NoCategories == <<>>

StoreEvents ==
    [coins        : {<<>>, <<FooCoin>>, <<BarCoin, FooCoin>>},
     dash         : {None, ListingTitle},
     title_en     : {None, TitleEn},
     date_event   : {None, BadStr, IsoStr(36)},
     created_date : {None, IsoStr(0)},
     categories   : {NoCategories}]

IdlePnl == klines = <<>> /\ tp = 0 /\ pnl = None /\ ppc = "idle"

InitStore ==
    /\ IdleStore
    /\ IdlePnl
    /\ IdleReport
    /\ IdleFetch
    /\ IdleMain

\* _save_api_event(session, event) called on its own, as the first call with
\* that event
Insert(event) ==
    /\ Len(store) < MaxStore
    /\ store_prev' = store
    /\ store' = save_store(store, event)
    /\ ins_ret' = save_ret(store, event)
    /\ ins_ev' = event
    /\ ins_twice' = FALSE
    /\ UNCHANGED notStore

\* _save_api_event again with the event of the call before
InsertAgain ==
    /\ ins_ev # None
    /\ Len(store) < MaxStore
    /\ store_prev' = store
    /\ store' = save_store(store, ins_ev)
    /\ ins_ret' = save_ret(store, ins_ev)
    /\ ins_twice' = TRUE
    /\ UNCHANGED ins_ev
    /\ UNCHANGED notStore

\* calls of _save_api_event with any event; the caller's filter is part of
\* IngestEvent
NextStore ==
    \/ \E event \in StoreEvents : Insert(event)
    \/ InsertAgain

SpecStore == InitStore /\ [][NextStore]_vars

StoredDays == 0..2

\* C3: inserting is idempotent: after insert has been called twice with the
\* same event, exactly one row holds the event's triple (coin_id, event_name,
\* event_date), the second call returned false, and query_for_day gives the
\* same rows for every day as before the second call.
C3_InsertIdempotent ==
    (ins_twice /\ ins_ev.coins # <<>>) =>
        LET row == RowOf(ins_ev)
        IN  /\ ins_ret = FALSE
            /\ Cardinality({i \in 1..Len(store) :
                    /\ store[i].coin_id = row.coin_id
                    /\ store[i].event_name = row.event_name
                    /\ store[i].event_date = row.event_date}) = 1
            /\ \A d \in StoredDays :
                    _query_events_for_day(store, d) = _query_events_for_day(store_prev, d)

-----------------------------------------------------------------------------
(* The report: _fmt_price and _write_strategy_results *)

RECURSIVE Pow10(_)
Pow10(n) == IF n = 0 THEN 1 ELSE 10 * Pow10(n - 1)

\* d >= t for d = Decimal(str(x)): a float just below the decimal t is not
AtLeast(x, t) == x.val > t \/ (x.val = t /\ ~x.under)

\* Decimal(str(x)).quantize(q) printed with "f": the text is given by its
\* digits as an integer and its number of decimal places.  x is counted in
\* ten-thousandths.  The step is chosen from the float as str() prints it;
\* ROUND_HALF_UP at 4 places and more then rounds a float that is just
\* below a decimal of 4 places back to that decimal.
_fmt_price(x) ==
    IF x = None THEN Str("")
    ELSE LET d == x.val
             places == IF AtLeast(x, 10000) THEN 4
                       ELSE IF AtLeast(x, 1000) THEN 6
                       ELSE IF AtLeast(x, 100) THEN 8
                       ELSE IF AtLeast(x, 10) THEN 9
                       ELSE 10
         IN  [kind |-> "decimal", val |-> <<d * Pow10(places - 4), places>>]

fieldnames ==
    << Str("Date"), Str("Ticker"), Str("Open"), Str("High"), Str("Strategy"),
       Str("Status"), Str("Entry"), Str("Stop"), Str("Target"), Str("P/L") >>

\* csv.DictWriter.writerow: the values in the order of fieldnames
LineOf(r) ==
    << r.Date, r.Ticker, r.Open, r.High, r.Strategy,
       r.Status, r.Entry, r.Stop, r.Target, r.PL >>

RECURSIVE LinesOf(_)
LinesOf(rs) == IF rs = <<>> THEN <<>> ELSE <<LineOf(Head(rs))>> \o LinesOf(Tail(rs))

\* the cell of a line under the column called name in the header line, None
\* when the header has no such column or the line is too short
Cell(header, line, name) ==
    LET at == {i \in 1..Len(header) : header[i] = name}
    IN  IF at = {} THEN None
        ELSE LET i == CHOOSE j \in at : \A k \in at : j >= k
             IN  IF i <= Len(line) THEN line[i] ELSE None

\* one row of csv.DictReader
DictOf(header, line) ==
    [Date     |-> Cell(header, line, Str("Date")),
     Ticker   |-> Cell(header, line, Str("Ticker")),
     Open     |-> Cell(header, line, Str("Open")),
     High     |-> Cell(header, line, Str("High")),
     Strategy |-> Cell(header, line, Str("Strategy")),
     Status   |-> Cell(header, line, Str("Status")),
     Entry    |-> Cell(header, line, Str("Entry")),
     Stop     |-> Cell(header, line, Str("Stop")),
     Target   |-> Cell(header, line, Str("Target")),
     PL       |-> Cell(header, line, Str("P/L"))]

\* the rows read from the report file: none when it is absent or empty
ReadOld(file) ==
    IF ~file.exists \/ file.lines = <<>> THEN <<>>
    ELSE [i \in 1..(Len(file.lines) - 1) |->
            DictOf(file.lines[1], file.lines[i + 1])]

KeyOf(r) == <<r.Date, r.Ticker, r.Strategy>>

new_keys(rows) == {KeyOf(rows[i]) : i \in 1..Len(rows)}

\* the old rows whose key no new row has
Retained(old, rows) == SelectSeq(old, LAMBDA r : KeyOf(r) \notin new_keys(rows))

\* header first, the new rows, then the retained old rows
NewContent(rows, old) == <<fieldnames>> \o LinesOf(rows) \o LinesOf(old)

\* the report file after a complete _write_strategy_results(rows)
_write_strategy_results(file, rows) ==
    File(NewContent(rows, Retained(ReadOld(file), rows)))

\* mutant: the writer fills the report file itself, line by line
StageInPlace(report, tmp, line) ==
    [report |-> File(IF report.exists /\ tmp.lines # <<>>
                     THEN Append(report.lines, line) ELSE <<line>>),
     tmp    |-> File(Append(tmp.lines, line))]

\* one buffered line reaches the temporary file; the report is not touched
Stage(report, tmp, line) ==
    [report |-> report, tmp |-> File(Append(tmp.lines, line))]

Strategy == Str("lewis-listing")

\* the same float, counted in ten-thousandths
Fine(x) == [x EXCEPT !.val = @ * 100]

\* a row as main builds it; entry and high_val are in hundredths, pnl is the
\* float that calculate_pnl returned
ReportRow(day, symbol, entry, high_val, pnl_val) ==
    [Date     |-> [kind |-> "isodate", val |-> day],
     Ticker   |-> symbol,
     Open     |-> _fmt_price(Float(entry * 100)),
     High     |-> _fmt_price(Float(high_val * 100)),
     Strategy |-> Strategy,
     Status   |-> IF pnl_val.val > 0 THEN Str("ok") ELSE Str("fail"),  \* the two marks
     Entry    |-> _fmt_price(Float(entry * 100)),
     Stop     |-> _fmt_price(Float(entry * 99)),
     Target   |-> _fmt_price(Float(high_val * 100)),
     PL       |-> _fmt_price(Fine(pnl_val))]

BatchRows ==
    { ReportRow(1, FOO, 100, 100, FloatSub(100, 100)),
      ReportRow(1, FOO, 100, 135, FloatSub(135, 100)),
      ReportRow(1, BAR, 130, 140, FloatSub(140, 130)) }

Batches == UNION {[1..n -> BatchRows] : n \in 1..MaxBatch}

InitReport ==
    /\ IdleReport
    /\ IdlePnl
    /\ IdleStore
    /\ IdleFetch
    /\ IdleMain

\* the call begins: the old rows are read and filtered, the temporary file is
\* created empty in the directory of the report
BeginWrite(rows) ==
    /\ w_pc \in {"idle", "done", "crashed"}
    /\ w_count < MaxWrites
    /\ w_count' = w_count + 1
    /\ w_rows' = rows
    /\ w_before' = fs_report
    /\ w_old' = Retained(ReadOld(fs_report), rows)
    /\ fs_tmp' = File(<<>>)
    /\ w_pc' = "staging"
    /\ UNCHANGED fs_report
    /\ UNCHANGED notReport

\* writeheader / writerows put the next line into the temporary file
StageLine ==
    /\ w_pc = "staging"
    /\ LET all == NewContent(w_rows, w_old)
           n   == Len(fs_tmp.lines)
           fs  == Stage(fs_report, fs_tmp, all[n + 1])
       IN  /\ fs_report' = fs.report
           /\ fs_tmp' = fs.tmp
           /\ w_pc' = IF n + 1 = Len(all) THEN "staged" ELSE "staging"
    /\ UNCHANGED <<w_rows, w_old, w_before, w_count>>
    /\ UNCHANGED notReport

\* shutil.move(tmp_name, file_path): one rename inside the directory
Replace ==
    /\ w_pc = "staged"
    /\ fs_report' = fs_tmp
    /\ fs_tmp' = NoFile
    /\ w_pc' = "done"
    /\ UNCHANGED <<w_rows, w_old, w_before, w_count>>
    /\ UNCHANGED notReport

\* the process dies inside the call; the files stay as they are
Crash ==
    /\ w_pc \in {"staging", "staged"}
    /\ w_pc' = "crashed"
    /\ UNCHANGED <<fs_report, fs_tmp, w_rows, w_old, w_before, w_count>>
    /\ UNCHANGED notReport

NextReport ==
    \/ \E rows \in Batches : BeginWrite(rows)
    \/ StageLine
    \/ Replace
    \/ Crash

SpecReport == InitReport /\ [][NextReport]_vars

\* C6: the report write is atomic: at every step of a call, a crash included,
\* the file under the final name is the complete report from before the call
\* (or absent) or the complete new report, and the temporary file holds the
\* complete new report when the replace step is due.
C6_AtomicReplace ==
    (w_pc # "idle") =>
        /\ fs_report \in {w_before, File(NewContent(w_rows, w_old))}
        /\ w_pc = "staged" => fs_tmp = File(NewContent(w_rows, w_old))
        /\ w_pc = "done" => fs_report = File(NewContent(w_rows, w_old))

\* C6 witness: a call crashed with a partly written temporary file while an
\* earlier report existed.
C6_Witness ==
    /\ w_pc = "crashed"
    /\ w_before.exists
    /\ fs_tmp.lines # <<>>
    /\ Len(fs_tmp.lines) < Len(NewContent(w_rows, w_old))

-----------------------------------------------------------------------------
(* The announcements API: get_category_ids_for_listings and
   _fetch_events_for_window *)

MaxPageSize == 75

PyInt(n) == [kind |-> "int", val |-> n]

\* mutant: the page size is taken as given
per_page_unclamped(lim) == lim

\* per_page = max(1, min(int(limit), 75))
per_page_of(lim) == Max(1, Min(lim, MaxPageSize))

KeyList == <<"l", "i", "s", "t">>

KeyExchang == <<"e", "x", "c", "h", "a", "n", "g">>

RECURSIVE wanted_ids(_)
\* the ids of the categories whose lowered name contains "list" or "exchang"
wanted_ids(cats) ==
    IF cats = <<>> THEN <<>>
    ELSE LET c == Head(cats)
         IN  (IF Contains(KeyList, Lower(c.name.val)) \/ Contains(KeyExchang, Lower(c.name.val))
              THEN <<c.id>> ELSE <<>>) \o wanted_ids(Tail(cats))

\* how get_category_ids_for_listings ends for a response of the endpoint:
\* requests.get raises Timeout or ConnectionError, raise_for_status raises
\* HTTPError, otherwise the joined ids are returned
get_category_ids_for_listings(resp) ==
    IF resp.kind = "ok"
    THEN [kind |-> "return", val |-> wanted_ids(resp.val)]
    ELSE [kind |-> "raise", val |-> resp.kind]

\* the handler of the try block: only requests.HTTPError is caught
Caught(e) == e = "HTTPError"

OkResp(v) == [kind |-> "ok", val |-> v]

FailResp(e) == [kind |-> e, val |-> <<>>]

ExchangeName == Text(<<"E", "x", "c", "h", "a", "n", "g", "e">>)

AirdropName == Text(<<"A", "i", "r", "d", "r", "o", "p">>)

CategoryResponses ==
    { OkResp(<< [id |-> 4, name |-> ExchangeName], [id |-> 9, name |-> AirdropName] >>),
      OkResp(<< [id |-> 9, name |-> AirdropName] >>),
      FailResp("HTTPError"), FailResp("Timeout"), FailResp("ConnectionError") }

\* the records of page p: n records, told apart by page and position
Body(p, n) == [i \in 1..n |-> <<p, i>>]

\* a 200 answer of the events endpoint: body and _metadata.page_count
PageResponses ==
    [len : {0, 1, 2, MaxPageSize}, page_count : {None, PyInt(2)}]
        \cup {[len |-> MaxPageSize, page_count |-> Str("2")]}

Limits == {0, 2, 100}

InitPages ==
    /\ limit \in Limits
    /\ cat_resp \in CategoryResponses
    /\ server \in [1..MaxPages -> PageResponses]
    /\ fpc = "start"
    /\ categories = None
    /\ page = 1
    /\ all_events = <<>>
    /\ requested = <<>>
    /\ raised = NotRaised
    /\ IdlePnl
    /\ IdleStore
    /\ IdleReport
    /\ IdleMain

\* the try block around get_category_ids_for_listings
Discover ==
    /\ fpc = "start"
    /\ LET r == get_category_ids_for_listings(cat_resp)
       IN  IF r.kind = "return"
           THEN /\ categories' = IF r.val # <<>> THEN [kind |-> "ids", val |-> r.val] ELSE None
                /\ fpc' = "paging"
                /\ raised' = NotRaised
           ELSE IF Caught(r.val)
           THEN /\ categories' = None
                /\ fpc' = "paging"
                /\ raised' = NotRaised
           ELSE /\ categories' = None
                /\ fpc' = "raised"
                /\ raised' = [kind |-> r.val, val |-> "categories"]
    /\ UNCHANGED <<limit, cat_resp, server, page, all_events, requested>>
    /\ UNCHANGED notFetch

\* TRUE when the loop leaves after the answer resp to page p
Breaks(resp, p, per_page) ==
    \/ resp.len = 0
    \/ resp.page_count.kind = "int" /\ p >= resp.page_count.val
    \/ resp.len < per_page

\* one turn of the while loop: request the page, take its body, break or go on
FetchPage ==
    /\ fpc = "paging"
    /\ page <= MaxPages
    /\ LET resp == server[page]
           per_page == per_page_of(limit)
       IN  /\ requested' = Append(requested, page)
           /\ all_events' = all_events \o Body(page, resp.len)
           /\ IF Breaks(resp, page, per_page)
              THEN fpc' = "returned" /\ page' = page
              ELSE fpc' = "paging" /\ page' = page + 1
    /\ UNCHANGED <<limit, cat_resp, server, categories, raised>>
    /\ UNCHANGED notFetch

\* the request of the page fails: requests.get or raise_for_status raises
PageFails(e) ==
    /\ fpc = "paging"
    /\ page <= MaxPages
    /\ requested' = Append(requested, page)
    /\ fpc' = "raised"
    /\ raised' = [kind |-> e, val |-> "events"]
    /\ UNCHANGED <<limit, cat_resp, server, categories, page, all_events>>
    /\ UNCHANGED notFetch

NextPages ==
    \/ Discover
    \/ FetchPage
    \/ \E e \in {"HTTPError", "Timeout"} : PageFails(e)

\* a call runs to completion: no step of it waits for anything but its answer
SpecPages ==
    /\ InitPages
    /\ [][NextPages]_vars
    /\ WF_vars(Discover)
    /\ WF_vars(FetchPage \/ \E e \in {"HTTPError", "Timeout"} : PageFails(e))

\* the page size the announcements API accepts for the given limit (1..75)
ClampedSize == IF limit < 1 THEN 1 ELSE IF limit > 75 THEN 75 ELSE limit

\* page p of the server is empty, or short, or at or past its own page count
StopsAt(p) ==
    \/ server[p].len = 0
    \/ server[p].len < ClampedSize
    \/ server[p].page_count.kind = "int" /\ server[p].page_count.val <= p

RECURSIVE ConcatPages(_)
\* the bodies of pages 1..p of the server, in page order
ConcatPages(p) ==
    IF p = 0 THEN <<>> ELSE ConcatPages(p - 1) \o Body(p, server[p].len)

\* C7: pagination requests pages 1, 2, 3, ... in order; when it returns it
\* has stopped at the first page that is empty, shorter than the clamped page
\* size or at or past the server's integer page_count, and returns the bodies
\* of pages 1..p concatenated in page order; and while a page that ends the
\* loop lies ahead, the loop does come to an end.
C7_Pagination ==
    /\ [](requested = [i \in 1..Len(requested) |-> i])
    /\ [](fpc = "returned" =>
            /\ StopsAt(page)
            /\ \A q \in 1..(page - 1) : ~StopsAt(q)
            /\ Len(requested) = page
            /\ all_events = ConcatPages(page))
    /\ ((fpc = "paging" /\ \E p \in page..MaxPages : StopsAt(p)) ~> (fpc # "paging"))

\* C7 witness: with the limit above 75, the call returned after two pages or
\* more, the last of them a full page of 75 that the page count ended.
C7_Witness ==
    /\ fpc = "returned"
    /\ page >= 2
    /\ limit > MaxPageSize
    /\ server[page].len = MaxPageSize
    /\ Len(all_events) = page * MaxPageSize

\* C8: a failed category discovery (HTTP error status, timeout, connection
\* failure) is never fatal: the call goes on to the page loop without a
\* category filter and the failure does not leave the call.
C8_CategoryFailureNotFatal ==
    (fpc # "start" /\ cat_resp.kind # "ok") =>
        /\ raised.val # "categories"
        /\ categories = None

-----------------------------------------------------------------------------
(* Market data: _alpha_token_id_by_symbol, _alpha_fetch_klines, fetch_klines.
   Instants and candle open times are counted in hours. *)

WindowDays == 7

Num(n) == [kind |-> "num", val |-> n]

Raise(e) == [kind |-> "raise", exc |-> e, klines |-> <<>>]

Return(ks) == [kind |-> "return", exc |-> "none", klines |-> ks]

\* the first token of the list whose symbol, upper-cased and stripped, is
\* that of the symbol asked for; found is FALSE for the return value None
_alpha_token_id_by_symbol(symbol, resp) ==
    IF resp.kind # "ok" THEN [kind |-> "raise", exc |-> resp.kind, found |-> FALSE, at |-> 0]
    ELSE LET tokens == resp.val
             sym_u  == Strip(Upper(Or(symbol, Text(<<>>)).val))
             hits   == {i \in 1..Len(tokens) :
                           Strip(Upper(Or(tokens[i].symbol, Text(<<>>)).val)) = sym_u}
         IN  [kind  |-> "return", exc |-> "none", found |-> hits # {},
              at    |-> IF hits = {} THEN 0 ELSE CHOOSE i \in hits : \A j \in hits : i <= j]

\* a row of klineInfos converts when none of its first five cells is null
Converts(row) == \A i \in 1..5 : row[i].kind = "num"

RECURSIVE InsertByTime(_, _)
\* k put into the sorted series s behind every candle that is not later
InsertByTime(s, k) ==
    IF s = <<>> THEN <<k>>
    ELSE IF s[Len(s)][1] <= k[1] THEN Append(s, k)
    ELSE Append(InsertByTime(SubSeq(s, 1, Len(s) - 1), k), s[Len(s)])

RECURSIVE SortByTime(_)
\* klines.sort(key=lambda x: x[0]), a stable sort
SortByTime(s) ==
    IF s = <<>> THEN <<>>
    ELSE InsertByTime(SortByTime(SubSeq(s, 1, Len(s) - 1)), s[Len(s)])

\* the rows inside [start, end] that convert, as [open_ms, o, h, l, c], sorted
_alpha_fetch_klines(start, end, resp) ==
    IF resp.kind # "ok" THEN Raise(resp.kind)
    ELSE LET kept == SelectSeq(resp.val, LAMBDA row :
                        /\ Converts(row)
                        /\ row[1].val >= start /\ row[1].val <= end)
             vals == [i \in 1..Len(kept) |->
                        <<kept[i][1].val, kept[i][2].val, kept[i][3].val,
                          kept[i][4].val, kept[i][5].val>>]
         IN  Return(SortByTime(vals))

fetch_klines(symbol, start, end, token_resp, kline_resp) ==
    LET alpha_token == _alpha_token_id_by_symbol(symbol, token_resp)
    IN  IF alpha_token.kind = "raise" THEN Raise(alpha_token.exc)
        ELSE IF ~alpha_token.found THEN Return(<<>>)
        ELSE _alpha_fetch_klines(start, end, kline_resp)

Token(sym) == [symbol |-> sym, chainId |-> Str("56"), contractAddress |-> Str("0xabc")]

TokenResponses ==
    { OkResp(<< Token(Text(<<" ", "f", "o", "o">>)), Token(BAR) >>),
      OkResp(<< Token(None) >>),
      FailResp("HTTPError"), FailResp("Timeout") }

RawRow(t, o, h, l, c) == <<Num(t), Num(o), Num(h), Num(l), Num(c), Num(1), Num(t + 1)>>

\* answers of the candle feed for an event at hour start
KlineResponses(start) ==
    { OkResp(<<>>),
      OkResp(<< RawRow(start, 100, 100, 100, 100) >>),
      OkResp(<< RawRow(start + 1, 130, 140, 100, 130), RawRow(start, 130, 145, 100, 100) >>),
      OkResp(<< RawRow(start - 1, 100, 105, 95, 102),
                <<Num(start), None, Num(1), Num(1), Num(1), Num(1), Num(start + 1)>>,
                RawRow(start + WindowDays * HoursPerDay, 100, 130, 100, 130) >>),
      OkResp(<< RawRow(start, 100, 100, 100, 100), RawRow(start + 1, 100, 100, 100, 100),
                RawRow(start + WindowDays * HoursPerDay + 1, 100, 135, 100, 130) >>),
      FailResp("HTTPError"), FailResp("Timeout"), FailResp("ConnectionError") }

-----------------------------------------------------------------------------
(* main *)

KeyExchange == <<"e", "x", "c", "h", "a", "n", "g", "e">>

KeyBinance == <<"b", "i", "n", "a", "n", "c", "e">>

ExchangeCategoryId == 4

_is_binance_listing(event) ==
    LET cats == event.categories
        is_exchange ==
            \/ cats = <<>>
            \/ \E i \in 1..Len(cats) :
                    \/ Contains(KeyExchange, Lower(cats[i].name.val))
                    \/ cats[i].id = ExchangeCategoryId
        title == Lower(Or(event.dash, Text(<<>>)).val)
    IN  is_exchange /\ Contains(KeyBinance, title)

\* mutant: the window asked for starts today
window_from_today(day) == <<day, day + 1>>

\* the window [tomorrow, tomorrow] that main asks the API for
window_of(day) == <<day + 1, day + 1>>

\* one turn of the loop over y_events, for the answers of the market data
\* endpoints: what was fetched, and whether the turn added a row, skipped the
\* event or raised
EvalTurn(row, yesterday, token_resp, kline_resp) ==
    IF ~Truthy(row.coin_symbol) \/ row.event_date = None
    THEN [fetch |-> "none", exc |-> "none", klines |-> <<>>, outcome |-> "skipped", row |-> <<>>]
    ELSE LET symbol == row.coin_symbol
             start  == row.event_date.val
             end    == start + WindowDays * HoursPerDay
             f      == fetch_klines(symbol, start, end, token_resp, kline_resp)
         IN  IF f.kind = "raise"
             THEN [fetch |-> "raise", exc |-> f.exc, klines |-> <<>>,
                   outcome |-> IF Caught(f.exc) THEN "skipped" ELSE "raised", row |-> <<>>]
             ELSE IF calculate_pnl(f.klines) = None \/ f.klines = <<>>
             THEN [fetch |-> "return", exc |-> "none", klines |-> f.klines,
                   outcome |-> "skipped", row |-> <<>>]
             ELSE IF Len(f.klines) < 2
             THEN [fetch |-> "return", exc |-> "IndexError", klines |-> f.klines,
                   outcome |-> "raised", row |-> <<>>]
             ELSE [fetch |-> "return", exc |-> "none", klines |-> f.klines,
                   outcome |-> "row",
                   row |-> << ReportRow(yesterday, symbol, f.klines[2][2],
                                        MaxHigh(f.klines), calculate_pnl(f.klines)) >>]

KrakenTitle == Text(<<"K", "r", "a", "k", "e", "n", " ", "l", "i", "s", "t", "s">>)

ShoutTitle == Text(<<"B", "I", "N", "A", "N", "C", "E">>)

ApiEvent(coin, title, cats, hour) ==
    [coins |-> <<coin>>, dash |-> title, title_en |-> TitleEn,
     date_event |-> IsoStr(hour), created_date |-> IsoStr(0), categories |-> cats]

\* events the API holds for the days of a window
ApiEvents(window) ==
    UNION { { ApiEvent(FooCoin, ListingTitle, <<>>, d * HoursPerDay),
              ApiEvent(FooCoin, ShoutTitle, <<[id |-> 7, name |-> ExchangeName]>>,
                       d * HoursPerDay + 12),
              ApiEvent(BarCoin, ListingTitle, <<[id |-> 9, name |-> AirdropName]>>,
                       d * HoursPerDay),
              ApiEvent(BarCoin, KrakenTitle, <<>>, d * HoursPerDay),
              ApiEvent(Coin(Str("baz"), None), ListingTitle,
                       <<[id |-> 4, name |-> AirdropName]>>, d * HoursPerDay) }
            : d \in window[1]..window[2] }

ApiLists(window) == UNION {[1..n -> ApiEvents(window)] : n \in 0..MaxApi}

InitMain ==
    /\ today = 1
    /\ runs = 0
    /\ mpc = "idle"
    /\ y_events = <<>>
    /\ api_events = <<>>
    /\ idx = 0
    /\ csv_rows = <<>>
    /\ exc = "none"
    /\ last = NoTurn
    /\ store0 = <<>>
    /\ report0 = NoFile
    /\ IdlePnl
    /\ IdleStore
    /\ IdleReport
    /\ IdleFetch

keptByRun == <<pnlVars, fetchVars, store_prev, ins_ev, ins_ret, ins_twice, fs_tmp, w_pc, w_old>>

\* main finds rows of yesterday and begins the evaluation pass
StartEval ==
    /\ mpc = "idle"
    /\ _query_events_for_day(store, today - 1) # <<>>
    /\ y_events' = _query_events_for_day(store, today - 1)
    /\ mpc' = "eval"
    /\ idx' = 1
    /\ csv_rows' = <<>>
    /\ store0' = store
    /\ report0' = fs_report
    /\ runs' = runs + 1
    /\ UNCHANGED <<today, api_events, exc, last, store, fs_report, w_rows, w_before, w_count>>
    /\ UNCHANGED keptByRun

\* main finds no row of yesterday and fetches the events of tomorrow, which
\* returns the list or raises
StartIngest ==
    /\ mpc = "idle"
    /\ _query_events_for_day(store, today - 1) = <<>>
    /\ store0' = store
    /\ report0' = fs_report
    /\ runs' = runs + 1
    /\ \/ /\ api_events' \in ApiLists(window_of(today))
          /\ mpc' = "ingest"
          /\ idx' = 1
          /\ exc' = "none"
       \/ /\ exc' \in {"HTTPError", "Timeout"}
          /\ mpc' = "crashed"
          /\ UNCHANGED <<api_events, idx>>
    /\ UNCHANGED <<today, y_events, csv_rows, last, store, fs_report, w_rows, w_before, w_count>>
    /\ UNCHANGED keptByRun

\* one turn of the loop over y_events
EvalEvent ==
    /\ mpc = "eval"
    /\ idx <= Len(y_events)
    /\ \E token_resp \in TokenResponses :
       \E kline_resp \in KlineResponses(IF y_events[idx].event_date = None THEN 0
                                         ELSE y_events[idx].event_date.val) :
          LET t == EvalTurn(y_events[idx], today - 1, token_resp, kline_resp)
          IN  /\ last' = t
              /\ IF t.outcome = "raised"
                 THEN /\ mpc' = "crashed"
                      /\ exc' = t.exc
                      /\ UNCHANGED <<idx, csv_rows>>
                 ELSE /\ csv_rows' = csv_rows \o t.row
                      /\ idx' = idx + 1
                      /\ UNCHANGED <<mpc, exc>>
    /\ UNCHANGED <<today, runs, y_events, api_events, store0, report0>>
    /\ UNCHANGED <<store, fs_report, w_rows, w_before, w_count>>
    /\ UNCHANGED keptByRun

\* after the loop: the gathered rows, if any, are merged into the report
FinishEval ==
    /\ mpc = "eval"
    /\ idx > Len(y_events)
    /\ IF csv_rows # <<>>
       THEN /\ fs_report' = _write_strategy_results(fs_report, csv_rows)
            /\ w_rows' = csv_rows
            /\ w_before' = fs_report
            /\ w_count' = w_count + 1
       ELSE UNCHANGED <<fs_report, w_rows, w_before, w_count>>
    /\ mpc' = "exited"
    /\ UNCHANGED <<today, runs, y_events, api_events, idx, csv_rows, exc, last, store0, report0>>
    /\ UNCHANGED store
    /\ UNCHANGED keptByRun

\* one turn of the loop over api_events
IngestEvent ==
    /\ mpc = "ingest"
    /\ idx <= Len(api_events)
    /\ store' = IF _is_binance_listing(api_events[idx])
                THEN save_store(store, api_events[idx]) ELSE store
    /\ idx' = idx + 1
    /\ UNCHANGED <<today, runs, mpc, y_events, api_events, csv_rows, exc, last, store0, report0>>
    /\ UNCHANGED <<fs_report, w_rows, w_before, w_count>>
    /\ UNCHANGED keptByRun

FinishIngest ==
    /\ mpc = "ingest"
    /\ idx > Len(api_events)
    /\ mpc' = "exited"
    /\ UNCHANGED <<today, runs, y_events, api_events, idx, csv_rows, exc, last, store0, report0>>
    /\ UNCHANGED <<store, fs_report, w_rows, w_before, w_count>>
    /\ UNCHANGED keptByRun

\* the program is started again, the same day or up to two days later
NextRun(d) ==
    /\ mpc \in {"exited", "crashed"}
    /\ runs < MaxRuns
    /\ today' = today + d
    /\ mpc' = "idle"
    /\ y_events' = <<>>
    /\ api_events' = <<>>
    /\ idx' = 0
    /\ csv_rows' = <<>>
    /\ exc' = "none"
    /\ last' = NoTurn
    /\ UNCHANGED <<runs, store0, report0>>
    /\ UNCHANGED <<store, fs_report, w_rows, w_before, w_count>>
    /\ UNCHANGED keptByRun

NextMain ==
    \/ StartEval
    \/ StartIngest
    \/ EvalEvent
    \/ FinishEval
    \/ IngestEvent
    \/ FinishIngest
    \/ \E d \in 0..2 : NextRun(d)

SpecMain == InitMain /\ [][NextMain]_vars

\* C2: in an evaluation pass every event with a symbol, a date and a
\* non-empty candle series yields a result: the pass does not fail on it and
\* a report row is produced for it, also when the series has exactly one
\* candle, and then with entry equal to that candle's open.
C2_SingleCandleYieldsRow ==
    (last.fetch = "return" /\ last.klines # <<>>) =>
        /\ last.outcome = "row"
        /\ mpc # "crashed"
        /\ Len(last.klines) = 1 =>
                last.row[1].Entry = _fmt_price(Float(last.klines[1][2] * 100))

\* C5: a timeout or an HTTP error of the candle fetch (token lookup or candle
\* feed) for one event is isolated to that event: the event is skipped and
\* the pass goes on.
C5_FetchFailureIsolated ==
    (last.fetch = "raise" /\ last.exc \in {"Timeout", "HTTPError"}) =>
        /\ last.outcome = "skipped"
        /\ mpc # "crashed"

\* the rows of a report file, read back
RowsOf(file) == ReadOld(file)

\* C4: after any sequence of report writes the report holds exactly one row
\* per (Date, Ticker, Strategy) key, every row of the latest write is in it as
\* written, and the rows of other keys that were there before the latest
\* write are still in it.
C4_OneRowPerKey ==
    (w_count > 0) =>
        LET rows == RowsOf(fs_report)
            was  == RowsOf(w_before)
        IN  /\ \A i, j \in 1..Len(rows) : KeyOf(rows[i]) = KeyOf(rows[j]) => i = j
            /\ \A i \in 1..Len(w_rows) : \E j \in 1..Len(rows) : rows[j] = w_rows[i]
            /\ \A i \in 1..Len(was) :
                    (\A k \in 1..Len(w_rows) : KeyOf(w_rows[k]) # KeyOf(was[i]))
                        => \E j \in 1..Len(rows) : rows[j] = was[i]

\* the stored row r is dated on day d (UTC)
DatedOn(r, d) ==
    /\ r.event_date.kind = "datetime"
    /\ r.event_date.val >= d * 24 /\ r.event_date.val < (d + 1) * 24

\* the event is a listing on the target exchange: no category, or a category
\* named as an exchange category or with the exchange id, and a title that
\* names Binance
Qualifies(event) ==
    /\ event.dash \in {ListingTitle, ShoutTitle}
    /\ \/ event.categories = <<>>
       \/ \E i \in 1..Len(event.categories) :
              event.categories[i].name = ExchangeName \/ event.categories[i].id = 4

\* C10: a run performs one mode, chosen by whether the store holds a row
\* dated yesterday: an evaluating run leaves the store as it is, an ingesting
\* run leaves the report as it is and adds only rows of qualifying events
\* dated tomorrow, and no step ever changes or removes a stored row.
C10_OneModePerRun ==
    /\ [](mpc = "eval" => \E i \in 1..Len(store0) : DatedOn(store0[i], today - 1))
    /\ [](mpc = "ingest" => ~\E i \in 1..Len(store0) : DatedOn(store0[i], today - 1))
    /\ [][mpc = "eval" => mpc' \in {"eval", "exited", "crashed"}]_vars
    /\ [][mpc = "ingest" => mpc' \in {"ingest", "exited", "crashed"}]_vars
    /\ [][store' # store => mpc = "ingest" /\ mpc' = "ingest"]_vars
    /\ [][fs_report' # fs_report => mpc = "eval"]_vars
    /\ [][/\ Len(store') >= Len(store)
          /\ SubSeq(store', 1, Len(store)) = store
          /\ Len(store') <= Len(store) + 1
          /\ Len(store') > Len(store) =>
                /\ Qualifies(api_events[idx])
                /\ store'[Len(store')].coin_id = api_events[idx].coins[1].id
                /\ DatedOn(store'[Len(store')], today + 1)]_vars

\* C10 witness: an evaluating run has written the report from rows that an
\* earlier ingesting run stored, two of them or more.
C10_Witness ==
    /\ mpc = "exited"
    /\ y_events # <<>>
    /\ fs_report.exists
    /\ Len(store) >= 2
    /\ store0 = store

====
